---- MODULE Spec2Model ----
(***************************************************************************)
(* Document access layer of the edge collection: the single-document       *)
(* operators (read/create/update/replace/remove), the batch operators      *)
(* built on them, the key extractor getKeyFromDocument, and the Index      *)
(* made of a server-provided descriptor with its accessors.                *)
(*                                                                         *)
(* A call is split at the one point where it blocks, conn.Do: one step     *)
(* runs the code up to the call of conn.Do, one step runs the code from    *)
(* the return of conn.Do to the next call of conn.Do (or to the return).   *)
(***************************************************************************)
EXTENDS Integers, Sequences, FiniteSets, TLC

\* Largest number of documents (and of explicit keys) of a batch call.
MaxDocs == 2

(***************************************************************************)
(* Values                                                                  *)
(***************************************************************************)

\* A nil error.
NoErr == "nil"

\* Strings are sequences of characters. The three keys tried as inputs: a
\* well-formed key, the empty key and a key holding a path separator.
KeyX == <<"x">>
KeyEmpty == <<>>
KeySlash == <<"a", "/", "b">>
Keys == {KeyX, KeyEmpty, KeySlash}

\* What reflect.Value.String() returns for a Value whose Kind is Interface:
\* the text "<interface {} Value>", not the string held by the interface.
IfaceValueString == <<"<", "i", "n", "t", "e", "r", "f", "a", "c", "e", " ", "{", "}", " ", "V", "a", "l", "u", "e", ">">>

\* The characters a key may hold.
KeyCharset == {"a", "b", "x", "y", "0", "1", "_", "-", ":", ".", "@"}

\* DocumentMeta{}: the zero value.
ZeroMeta == [Key |-> <<>>, Rev |-> "", set |-> FALSE]

\* The key the server gives a created document.
ServerKey == <<"1">>

\* The DocumentMeta resp.ParseBody("edge", &meta) fills in on success.
ParsedMeta(key) == [Key |-> key, Rev |-> "r", set |-> TRUE]

\* contextSettings{}: the zero value, and the fields the operators read.
ZeroSettings == [Silent |-> FALSE, ReturnOld |-> FALSE, ReturnNew |-> FALSE]

(***************************************************************************)
(* Documents as reflect sees them.                                         *)
(*   kind    reflect.Kind of the batch element (documentsVal.Index(i))     *)
(*   isnil   the element is a nil pointer, nil map or nil interface        *)
(*   haskey  Struct/Ptr: the struct type has a field tagged `_key`;        *)
(*           Map: the map has an entry "_key"                              *)
(*   keykind reflect.Kind of the key field or of the map's element type    *)
(*   keynil  the "_key" entry holds a nil interface                        *)
(*   key     the string held by the key field / entry                      *)
(***************************************************************************)
Doc(kind, isnil, haskey, keykind, keynil, key) ==
    [kind |-> kind, isnil |-> isnil, haskey |-> haskey, keykind |-> keykind,
     keynil |-> keynil, key |-> key]

\* []T for a struct type T, with and without a `_key` string field.
StructDocs == {Doc("Struct", FALSE, TRUE, "String", FALSE, k) : k \in {KeyX, KeyEmpty}}
StructNoKeyDocs == {Doc("Struct", FALSE, FALSE, "String", FALSE, KeyEmpty)}
\* []*T for the same two struct types.
PtrDocs == {Doc("Ptr", FALSE, TRUE, "String", FALSE, k) : k \in {KeyX, KeyEmpty}}
               \cup {Doc("Ptr", TRUE, TRUE, "String", FALSE, KeyEmpty)}
PtrNoKeyDocs == {Doc("Ptr", n, FALSE, "String", FALSE, KeyEmpty) : n \in BOOLEAN}
\* []map[string]interface{}
MapIfaceDocs == {Doc("Map", FALSE, TRUE, "Interface", FALSE, KeyX),
                 Doc("Map", FALSE, TRUE, "Interface", TRUE, KeyEmpty),
                 Doc("Map", FALSE, FALSE, "Interface", FALSE, KeyEmpty),
                 Doc("Map", TRUE, FALSE, "Interface", FALSE, KeyEmpty)}
\* []map[string]string
MapStringDocs == {Doc("Map", FALSE, TRUE, "String", FALSE, KeyX),
                  Doc("Map", FALSE, FALSE, "String", FALSE, KeyEmpty),
                  Doc("Map", TRUE, FALSE, "String", FALSE, KeyEmpty)}
\* []interface{}: a nil element, or an element holding some document.
IfaceDocs == {Doc("Interface", FALSE, TRUE, "String", FALSE, KeyX),
              Doc("Interface", TRUE, FALSE, "String", FALSE, KeyEmpty)}
\* []int
ScalarDocs == {Doc("Int", FALSE, FALSE, "String", FALSE, KeyEmpty)}

\* A Go slice has one element type: the documents of a batch come from one
\* of these sets.
ElemTypes == {StructDocs, StructNoKeyDocs, PtrDocs, PtrNoKeyDocs, MapIfaceDocs,
              MapStringDocs, IfaceDocs, ScalarDocs}

SeqsUpTo(S, n) == UNION {[1..m -> S] : m \in 0..n}

\* doc.Interface() == nil: only a nil interface element compares equal to
\* nil; a nil *T or a nil map in an interface{} does not.
IsNilInterface(doc) == doc.kind = "Interface" /\ doc.isnil

(***************************************************************************)
(* Leaves                                                                  *)
(***************************************************************************)

\* validateKey: nil for a well-formed key, an InvalidKeyError otherwise.
validateKey(key) ==
    IF key = <<>> \/ \E n \in 1..Len(key) : key[n] \notin KeyCharset
    THEN "InvalidKeyError"
    ELSE NoErr

\* pathEscape of one character, and of a key.
EscapeChar(c) == IF c \in KeyCharset THEN <<c>> ELSE <<"%", c>>

RECURSIVE pathEscape(_)
pathEscape(key) ==
    IF key = <<>> THEN <<>> ELSE EscapeChar(Head(key)) \o pathEscape(Tail(key))

\* c.relPath()
RelPath == <<"e">>
\* path.Join(c.relPath(), escapedKey)
KeyPath(key) == RelPath \o <<"/">> \o pathEscape(key)

\* The kinds reflect.Value.IsNil accepts; it panics on every other kind,
\* the zero Value (kind Invalid) included.
NilableKinds == {"Ptr", "Map", "Interface", "Chan", "Func", "Slice"}

\* reflect.Value.String(): the string of a String Value, "<T Value>" of any
\* other.
ValueString(kind, s) == IF kind = "String" THEN s ELSE IfaceValueString

\* Results of getKeyFromDocument.
Extracted(key) == [key |-> key, err |-> NoErr, panic |-> FALSE]
ExtractErr == [key |-> <<>>, err |-> "InvalidArgumentError", panic |-> FALSE]
ExtractPanic == [key |-> <<>>, err |-> NoErr, panic |-> TRUE]

\* The Struct case of getKeyFromDocument.
StructKey(doc) ==
    IF doc.haskey THEN Extracted(ValueString(doc.keykind, doc.key)) ELSE ExtractErr

\* The Map case of getKeyFromDocument: MapIndex returns the zero Value for a
\* missing entry, and keyVal.IsNil() panics on it as on a string.
MapKey(doc) ==
    LET keyValKind == IF doc.haskey THEN doc.keykind ELSE "Invalid" IN
    IF keyValKind \notin NilableKinds THEN ExtractPanic
    ELSE IF doc.keynil THEN ExtractErr
    ELSE Extracted(ValueString(keyValKind, doc.key))

getKeyFromDocument(doc) ==
    IF doc.kind \notin NilableKinds THEN ExtractPanic
    ELSE IF doc.isnil THEN ExtractErr
    ELSE LET kind == IF doc.kind = "Ptr" THEN "Struct" ELSE doc.kind IN
         CASE kind = "Struct" -> StructKey(doc)
           [] kind = "Map" -> MapKey(doc)
           [] OTHER -> ExtractErr

(***************************************************************************)
(* The transport collaborator. Its answers are inputs of the model.        *)
(*   prep: what NewRequest / SetBody return for the item                  *)
(*   resp: what Do returns, what CheckStatus says of the status, and the   *)
(*         first envelope ParseBody fails to decode                        *)
(***************************************************************************)
Preps == {"ok", "NewRequestError", "SetBodyError"}

Response(doErr, statusOK, decodeFail) ==
    [doErr |-> doErr, statusOK |-> statusOK, decodeFail |-> decodeFail]

DoErrResponse == Response(TRUE, FALSE, "none")

Responses ==
    {DoErrResponse, Response(FALSE, FALSE, "none")}
        \cup {Response(FALSE, TRUE, d) : d \in {"none", "edge", "result", "old", "new"}}

\* applyContextSettings: the settings the call's context carries.
applyContextSettings(ctx) ==
    [Silent |-> ctx.silent, ReturnOld |-> ctx.returnOld, ReturnNew |-> ctx.returnNew]

\* What an operator returns: (DocumentMeta, contextSettings, error).
Ret(meta, cs, err) == [meta |-> meta, cs |-> cs, err |-> err]

\* What the code before conn.Do yields: an error return, or the request.
Failed(err) == [sent |-> FALSE, ret |-> Ret(ZeroMeta, ZeroSettings, err),
                method |-> "", path |-> <<>>]
Request(method, path) == [sent |-> TRUE, ret |-> Ret(ZeroMeta, ZeroSettings, NoErr),
                          method |-> method, path |-> path]

(***************************************************************************)
(* Single-document operators, each in two halves: up to conn.Do (Pre) and  *)
(* from the return of conn.Do (Post).                                      *)
(***************************************************************************)

\* ReadDocument, lines 37-44.
ReadDocumentPre(key, prep) ==
    IF validateKey(key) # NoErr THEN Failed(validateKey(key))
    ELSE IF prep = "NewRequestError" THEN Failed("NewRequestError")
    ELSE Request("GET", KeyPath(key))

\* ReadDocument, lines 45-63. hasResult: result != nil.
ReadDocumentPost(key, hasResult, resp) ==
    IF resp.doErr THEN Ret(ZeroMeta, ZeroSettings, "TransportError")
    ELSE IF ~resp.statusOK THEN Ret(ZeroMeta, ZeroSettings, "StatusError")
    ELSE IF resp.decodeFail = "edge" THEN Ret(ZeroMeta, ZeroSettings, "DecodeError")
    ELSE IF hasResult /\ resp.decodeFail = "result"
         THEN Ret(ParsedMeta(key), ZeroSettings, "DecodeError")
    ELSE Ret(ParsedMeta(key), ZeroSettings, NoErr)

\* createDocument, lines 82-92.
createDocumentPre(document, prep) ==
    IF IsNilInterface(document) THEN Failed("InvalidArgumentError")
    ELSE IF prep = "NewRequestError" THEN Failed("NewRequestError")
    ELSE IF prep = "SetBodyError" THEN Failed("SetBodyError")
    ELSE Request("POST", RelPath)

\* createDocument, lines 93-115.
createDocumentPost(cs, resp) ==
    IF resp.doErr THEN Ret(ZeroMeta, cs, "TransportError")
    ELSE IF ~resp.statusOK THEN Ret(ZeroMeta, cs, "StatusError")
    ELSE IF cs.Silent THEN Ret(ZeroMeta, cs, NoErr)
    ELSE IF resp.decodeFail = "edge" THEN Ret(ZeroMeta, cs, "DecodeError")
    ELSE IF cs.ReturnNew /\ resp.decodeFail = "new"
         THEN Ret(ParsedMeta(ServerKey), cs, "DecodeError")
    ELSE Ret(ParsedMeta(ServerKey), cs, NoErr)

\* Mutant: the request is constructed first, and the nil check comes before
\* the key's validation.
writeDocumentPre_ChecksLate(method, key, document, prep) ==
    IF prep = "NewRequestError" THEN Failed("NewRequestError")
    ELSE IF IsNilInterface(document) THEN Failed("InvalidArgumentError")
    ELSE IF validateKey(key) # NoErr THEN Failed(validateKey(key))
    ELSE IF prep = "SetBodyError" THEN Failed("SetBodyError")
    ELSE Request(method, KeyPath(key))

\* updateDocument (PATCH) and replaceDocument (PUT), lines 170-184, 285-299.
writeDocumentPre(method, key, document, prep) ==
    IF validateKey(key) # NoErr THEN Failed(validateKey(key))
    ELSE IF IsNilInterface(document) THEN Failed("InvalidArgumentError")
    ELSE IF prep = "NewRequestError" THEN Failed("NewRequestError")
    ELSE IF prep = "SetBodyError" THEN Failed("SetBodyError")
    ELSE Request(method, KeyPath(key))

updateDocumentPre(key, update, prep) == writeDocumentPre("PATCH", key, update, prep)

replaceDocumentPre(key, document, prep) == writeDocumentPre("PUT", key, document, prep)

\* Mutant: the operator keeps the metadata when the status check fails.
writeDocumentPost_KeepsMeta(key, cs, resp) ==
    IF resp.doErr THEN Ret(ZeroMeta, cs, "TransportError")
    ELSE IF ~resp.statusOK THEN Ret(ParsedMeta(key), cs, "StatusError")
    ELSE IF cs.Silent THEN Ret(ZeroMeta, cs, NoErr)
    ELSE IF resp.decodeFail = "edge" THEN Ret(ZeroMeta, cs, "DecodeError")
    ELSE IF cs.ReturnOld /\ resp.decodeFail = "old"
         THEN Ret(ParsedMeta(key), cs, "DecodeError")
    ELSE IF cs.ReturnNew /\ resp.decodeFail = "new"
         THEN Ret(ParsedMeta(key), cs, "DecodeError")
    ELSE Ret(ParsedMeta(key), cs, NoErr)

\* updateDocument, lines 185-213; replaceDocument, lines 300-328.
writeDocumentPost(key, cs, resp) ==
    IF resp.doErr THEN Ret(ZeroMeta, cs, "TransportError")
    ELSE IF ~resp.statusOK THEN Ret(ZeroMeta, cs, "StatusError")
    ELSE IF cs.Silent THEN Ret(ZeroMeta, cs, NoErr)
    ELSE IF resp.decodeFail = "edge" THEN Ret(ZeroMeta, cs, "DecodeError")
    ELSE IF cs.ReturnOld /\ resp.decodeFail = "old"
         THEN Ret(ParsedMeta(key), cs, "DecodeError")
    ELSE IF cs.ReturnNew /\ resp.decodeFail = "new"
         THEN Ret(ParsedMeta(key), cs, "DecodeError")
    ELSE Ret(ParsedMeta(key), cs, NoErr)

updateDocumentPost(key, cs, resp) == writeDocumentPost(key, cs, resp)

replaceDocumentPost(key, cs, resp) == writeDocumentPost(key, cs, resp)

\* removeDocument, lines 399-407.
removeDocumentPre(key, prep) ==
    IF validateKey(key) # NoErr THEN Failed(validateKey(key))
    ELSE IF prep = "NewRequestError" THEN Failed("NewRequestError")
    ELSE Request("DELETE", KeyPath(key))

\* removeDocument, lines 408-430.
removeDocumentPost(key, cs, resp) ==
    IF resp.doErr THEN Ret(ZeroMeta, cs, "TransportError")
    ELSE IF ~resp.statusOK THEN Ret(ZeroMeta, cs, "StatusError")
    ELSE IF cs.Silent THEN Ret(ZeroMeta, cs, NoErr)
    ELSE IF resp.decodeFail = "edge" THEN Ret(ZeroMeta, cs, "DecodeError")
    ELSE IF cs.ReturnOld /\ resp.decodeFail = "old"
         THEN Ret(ParsedMeta(key), cs, "DecodeError")
    ELSE Ret(ParsedMeta(key), cs, NoErr)

\* The operator of a verb, as the batch and the single calls dispatch to it.
OperatorPre(op, key, document, prep) ==
    CASE op = "read" -> ReadDocumentPre(key, prep)
      [] op = "create" -> createDocumentPre(document, prep)
      [] op = "update" -> updateDocumentPre(key, document, prep)
      [] op = "replace" -> replaceDocumentPre(key, document, prep)
      [] op = "remove" -> removeDocumentPre(key, prep)

OperatorPost(op, key, document, cs, resp) ==
    CASE op = "read" -> ReadDocumentPost(key, ~IsNilInterface(document), resp)
      [] op = "create" -> createDocumentPost(cs, resp)
      [] op = "update" -> updateDocumentPost(key, cs, resp)
      [] op = "replace" -> replaceDocumentPost(key, cs, resp)
      [] op = "remove" -> removeDocumentPost(key, cs, resp)

\* CreateDocument, UpdateDocument, ReplaceDocument, RemoveDocument: what the
\* exported function makes of its operator's return.
ExportedReturn(r) ==
    IF r.err # NoErr THEN [meta |-> ZeroMeta, err |-> r.err]
    ELSE [meta |-> r.meta, err |-> NoErr]

\* ReadDocument returns what its body returns.
ReadReturn(r) == [meta |-> r.meta, err |-> r.err]

(***************************************************************************)
(* State                                                                   *)
(***************************************************************************)
VARIABLES
    pc,          \* "start", "loop", "inflight" (inside conn.Do), "done", "panic"
    call,        \* the call: api, op, ctx, keys, documents
    i,           \* the batch loop's index, 1-based
    metas,       \* the batch's DocumentMetaSlice
    errs,        \* the batch's ErrorSlice
    silent,      \* the batch's local `silent`
    requests,    \* the requests handed to conn.Do, in order
    cancelled,   \* the call's context has been cancelled
    cancelledAt, \* the item in flight when it was cancelled, 0 if none
    extracted,   \* history: what getKeyFromDocument returned per item
    itemErr,     \* history: the error each item's processing produced
    ret,         \* history: what the single call's operator returned
    result,      \* what the call returned
    responses,   \* history: the items whose conn.Do has returned, in order
    index,       \* the index descriptor and the Index made of it
    answers      \* what the Index's accessors returned, once called

vars == <<pc, call, i, metas, errs, silent, requests, cancelled, cancelledAt,
          extracted, itemErr, ret, result, responses, index, answers>>

Ctxs == [silent : BOOLEAN, returnOld : BOOLEAN, returnNew : BOOLEAN]

\* keys []string: nil, or a slice.
NilKeys == [isnil |-> TRUE, seq |-> <<>>]
KeySlice(seq) == [isnil |-> FALSE, seq |-> seq]

Call(api, op, ctx, isArray, keys, docs) ==
    [api |-> api, op |-> op, ctx |-> ctx, isArray |-> isArray, keys |-> keys,
     docs |-> docs]

\* CreateDocuments(ctx, documents)
CreateCalls ==
    {Call("batch", "create", c, TRUE, NilKeys, d) :
        c \in Ctxs, d \in SeqsUpTo(IfaceDocs, MaxDocs)}

\* UpdateDocuments / ReplaceDocuments(ctx, nil, documents)
KeylessCalls ==
    {Call("batch", op, c, TRUE, NilKeys, d) :
        op \in {"update", "replace"}, c \in Ctxs,
        d \in UNION {SeqsUpTo(T, MaxDocs) : T \in ElemTypes}}

\* UpdateDocuments / ReplaceDocuments(ctx, keys, documents)
KeyedCalls ==
    {Call("batch", op, c, TRUE, KeySlice(k), d) :
        op \in {"update", "replace"}, c \in Ctxs,
        k \in SeqsUpTo(Keys, MaxDocs), d \in SeqsUpTo(IfaceDocs, MaxDocs)}

\* RemoveDocuments(ctx, keys)
RemoveCalls ==
    {Call("batch", "remove", c, TRUE, KeySlice(k), <<>>) :
        c \in Ctxs, k \in SeqsUpTo(Keys, MaxDocs)}

\* A documents argument that is no array or slice.
NotArrayCalls ==
    {Call("batch", op, c, FALSE, k, <<>>) :
        op \in {"create", "update", "replace"}, c \in Ctxs,
        k \in {NilKeys, KeySlice(<<KeyX>>)}}

BatchCalls == CreateCalls \cup KeylessCalls \cup KeyedCalls \cup RemoveCalls
                  \cup NotArrayCalls

\* documentCount / updateCount / keyCount
Count(c) == IF c.op = "remove" THEN Len(c.keys.seq) ELSE Len(c.docs)

NotExtracted == [key |-> <<>>, err |-> NoErr, panic |-> FALSE, called |-> FALSE]
Called(e) == [key |-> e.key, err |-> e.err, panic |-> e.panic, called |-> TRUE]

\* The call's return value: (metas, errs, err); isnil: metas and errs are nil.
NoResult == [isnil |-> TRUE, metas |-> <<>>, errs |-> <<>>, err |-> NoErr]
BatchError(err) == [isnil |-> TRUE, metas |-> <<>>, errs |-> <<>>, err |-> err]
BatchResult(m, e) == [isnil |-> FALSE, metas |-> m, errs |-> e, err |-> NoErr]

\* No index is in play in a document call, and no accessor was called.
NoIndex == [data |-> [id |-> <<>>, typestr |-> "", unique |-> "nil",
                      deduplicate |-> "nil", sparse |-> "nil", geoJSON |-> "nil"],
            col |-> "nil", made |-> FALSE, err |-> NoErr, indexType |-> ""]
NoAnswers == [IsUnique |-> "none", IsSparse |-> "none", IsDeduplicate |-> "none",
              IsGeoJSON |-> "none"]

InitCommon ==
    /\ pc = "start"
    /\ i = 0
    /\ metas = <<>>
    /\ errs = <<>>
    /\ silent = FALSE
    /\ requests = <<>>
    /\ cancelled = FALSE
    /\ cancelledAt = 0
    /\ extracted = <<>>
    /\ itemErr = <<>>
    /\ ret = Ret(ZeroMeta, ZeroSettings, NoErr)
    /\ result = NoResult
    /\ responses = <<>>
    /\ index = NoIndex
    /\ answers = NoAnswers

Init ==
    /\ call \in BatchCalls
    /\ InitCommon

(***************************************************************************)
(* Batch operators                                                         *)
(***************************************************************************)

\* Mutant: only the first explicit key is validated before the loop.
KeysPrecheck_FirstKeyOnly(c) ==
    IF c.op = "create" \/ c.keys.isnil THEN NoErr
    ELSE IF c.op # "remove" /\ Len(c.keys.seq) # Count(c) THEN "InvalidArgumentError"
    ELSE IF Len(c.keys.seq) > 0 /\ validateKey(c.keys.seq[1]) # NoErr
         THEN "InvalidKeyError"
    ELSE NoErr

\* The check of the explicit keys before the loop: UpdateDocuments lines
\* 231-240, ReplaceDocuments lines 346-355, RemoveDocuments lines 440-444.
KeysPrecheck(c) ==
    IF c.op = "create" \/ c.keys.isnil THEN NoErr
    ELSE IF c.op # "remove" /\ Len(c.keys.seq) # Count(c) THEN "InvalidArgumentError"
    ELSE IF \E n \in 1..Len(c.keys.seq) : validateKey(c.keys.seq[n]) # NoErr
         THEN "InvalidKeyError"
    ELSE NoErr

\* The switch on documentsVal.Kind().
KindCheck(c) == IF c.op # "remove" /\ ~c.isArray THEN "InvalidArgumentError" ELSE NoErr

\* Mutant: the loop stops once the context is cancelled.
LoopCond_StopsOnCancel(n, count) == n <= count /\ ~cancelled

\* for i := 0; i < documentCount; i++
LoopCond(n, count) == n <= count

\* Mutant: the loop body records the metadata and drops the error.
RecordItem_DropsErr(st, n, r) ==
    IF r.cs.Silent
    THEN [st EXCEPT !.silent = TRUE]
    ELSE [st EXCEPT !.metas[n] = r.meta]

\* The loop body's last statement: if cs.Silent { silent = true } else
\* { metas[i], errs[i] = meta, err }
RecordItem(st, n, r) ==
    IF r.cs.Silent
    THEN [st EXCEPT !.silent = TRUE]
    ELSE [st EXCEPT !.metas[n] = r.meta, !.errs[n] = r.err]

\* Mutant: the extraction error is not recorded before continue.
RecordExtractErr_Skips(st, n, err) == st

\* errs[i] = err; continue
RecordExtractErr(st, n, err) == [st EXCEPT !.errs[n] = err]

\* if silent { return nil, nil, nil }; return metas, errs, nil
BatchReturn(st) ==
    IF st.silent THEN NoResult ELSE BatchResult(st.metas, st.errs)

\* The key of item n once it is known: the explicit key, or the extracted one.
ItemKey(c, n) ==
    IF c.op = "create" THEN ServerKey
    ELSE IF ~c.keys.isnil THEN c.keys.seq[n]
    ELSE getKeyFromDocument(c.docs[n]).key

\* The document of item n (RemoveDocuments has none).
ItemDoc(c, n) ==
    IF c.op = "remove" THEN Doc("Interface", FALSE, FALSE, "String", FALSE, KeyEmpty)
    ELSE c.docs[n]

\* Item n uses the key extractor.
Extracts(c) == c.op \in {"update", "replace"} /\ c.keys.isnil

State == [metas |-> metas, errs |-> errs, silent |-> silent]

\* Mutant: an item whose request failed in the transport is tried once more.
Advance_Retries(st) ==
    /\ metas' = st.metas
    /\ errs' = st.errs
    /\ silent' = st.silent
    /\ IF st.errs[i] = "TransportError"
            /\ Cardinality({m \in 1..Len(requests) : requests[m].item = i}) < 2
       THEN /\ i' = i
            /\ pc' = "loop"
            /\ result' = result
       ELSE IF LoopCond(i + 1, Count(call))
       THEN /\ i' = i + 1
            /\ pc' = "loop"
            /\ result' = result
       ELSE /\ i' = i
            /\ pc' = "done"
            /\ result' = BatchReturn(st)

\* The end of a loop iteration: the next one, or the return.
Advance(st) ==
    /\ metas' = st.metas
    /\ errs' = st.errs
    /\ silent' = st.silent
    /\ IF LoopCond(i + 1, Count(call))
       THEN /\ i' = i + 1
            /\ pc' = "loop"
            /\ result' = result
       ELSE /\ i' = i
            /\ pc' = "done"
            /\ result' = BatchReturn(st)

\* The call up to its loop: the argument checks and the two make()s.
BatchEnter ==
    /\ pc = "start"
    /\ call.api = "batch"
    /\ UNCHANGED <<responses, index, answers, call, requests, cancelled, cancelledAt, silent, ret>>
    /\ extracted' = [n \in 1..Count(call) |-> NotExtracted]
    /\ itemErr' = [n \in 1..Count(call) |-> NoErr]
    /\ IF KindCheck(call) # NoErr
       THEN /\ pc' = "done"
            /\ result' = BatchError(KindCheck(call))
            /\ UNCHANGED <<i, metas, errs>>
       ELSE IF KeysPrecheck(call) # NoErr
       THEN /\ pc' = "done"
            /\ result' = BatchError(KeysPrecheck(call))
            /\ UNCHANGED <<i, metas, errs>>
       ELSE /\ metas' = [n \in 1..Count(call) |-> ZeroMeta]
            /\ errs' = [n \in 1..Count(call) |-> NoErr]
            /\ IF LoopCond(1, Count(call))
               THEN /\ pc' = "loop"
                    /\ i' = 1
                    /\ result' = result
               ELSE /\ pc' = "done"
                    /\ i' = i
                    /\ result' = BatchReturn([metas |-> <<>>, errs |-> <<>>,
                                              silent |-> FALSE])

\* Item i whose key extraction panics: the call is gone.
ItemPanics ==
    /\ pc = "loop"
    /\ Extracts(call)
    /\ getKeyFromDocument(call.docs[i]).panic
    /\ extracted' = [extracted EXCEPT ![i] = Called(getKeyFromDocument(call.docs[i]))]
    /\ pc' = "panic"
    /\ UNCHANGED <<responses, index, answers, call, i, metas, errs, silent, requests, cancelled, cancelledAt,
                   itemErr, ret, result>>

\* Item i whose key extraction returns an error: errs[i] = err; continue.
ItemExtractFails ==
    /\ pc = "loop"
    /\ Extracts(call)
    /\ LET e == getKeyFromDocument(call.docs[i]) IN
        /\ ~e.panic
        /\ e.err # NoErr
        /\ extracted' = [extracted EXCEPT ![i] = Called(e)]
        /\ itemErr' = [itemErr EXCEPT ![i] = e.err]
        /\ Advance(RecordExtractErr(State, i, e.err))
    /\ UNCHANGED <<responses, index, answers, call, requests, cancelled, cancelledAt, ret>>

\* Item i with a key, up to conn.Do: the operator returns before it, or the
\* request goes out.
ItemStart ==
    /\ pc = "loop"
    /\ call.api = "batch"
    /\ LET e == getKeyFromDocument(call.docs[i]) IN
        IF Extracts(call)
        THEN /\ ~e.panic
             /\ e.err = NoErr
             /\ extracted' = [extracted EXCEPT ![i] = Called(e)]
        ELSE extracted' = extracted
    /\ \E prep \in Preps :
        LET p == OperatorPre(call.op, ItemKey(call, i), ItemDoc(call, i), prep) IN
        IF p.sent
        THEN /\ requests' = Append(requests, [item |-> i, method |-> p.method,
                                               path |-> p.path])
             /\ pc' = "inflight"
             /\ UNCHANGED <<i, metas, errs, silent, itemErr, result>>
        ELSE /\ requests' = requests
             /\ itemErr' = [itemErr EXCEPT ![i] = p.ret.err]
             /\ Advance(RecordItem(State, i, p.ret))
    /\ UNCHANGED <<responses, index, answers, call, cancelled, cancelledAt, ret>>

\* What conn.Do may return: anything, but an error once the context is
\* cancelled.
DoResponses == IF cancelled THEN {DoErrResponse} ELSE Responses

\* Item i from the return of conn.Do to the end of the iteration.
ItemFinish ==
    /\ pc = "inflight"
    /\ call.api = "batch"
    /\ \E resp \in DoResponses :
        LET r == OperatorPost(call.op, ItemKey(call, i), ItemDoc(call, i),
                              applyContextSettings(call.ctx), resp) IN
        /\ itemErr' = [itemErr EXCEPT ![i] = r.err]
        /\ Advance(RecordItem(State, i, r))
    /\ responses' = Append(responses, i)
    /\ UNCHANGED <<index, answers, call, requests, cancelled, cancelledAt, extracted, ret>>

\* The caller cancels the context while item i is inside conn.Do.
Cancel ==
    /\ pc = "inflight"
    /\ ~cancelled
    /\ cancelled' = TRUE
    /\ cancelledAt' = i
    /\ UNCHANGED <<responses, index, answers, pc, call, i, metas, errs, silent, requests, extracted, itemErr,
                   ret, result>>

Next == BatchEnter \/ ItemPanics \/ ItemExtractFails \/ ItemStart \/ ItemFinish
            \/ Cancel

Spec == Init /\ [][Next]_vars

(***************************************************************************)
(* Single-document calls                                                   *)
(***************************************************************************)

\* ReadDocument(ctx, key, result), CreateDocument(ctx, document),
\* UpdateDocument(ctx, key, update), ReplaceDocument(ctx, key, document),
\* RemoveDocument(ctx, key): one key, one document (or result sink).
SingleCalls ==
    {Call("single", op, c, TRUE, KeySlice(<<k>>), <<d>>) :
        op \in {"read", "create", "update", "replace", "remove"}, c \in Ctxs,
        k \in Keys, d \in IfaceDocs}

SingleResult(r) == [isnil |-> FALSE, metas |-> <<r.meta>>, errs |-> <<>>, err |-> r.err]

\* What the exported function returns for its operator's return r.
SingleReturn(op, r) ==
    IF op = "read" THEN SingleResult(ReadReturn(r)) ELSE SingleResult(ExportedReturn(r))

InitSingle ==
    /\ call \in SingleCalls
    /\ InitCommon

\* The call up to conn.Do.
SingleStart ==
    /\ pc = "start"
    /\ call.api = "single"
    /\ \E prep \in Preps :
        LET p == OperatorPre(call.op, call.keys.seq[1], call.docs[1], prep) IN
        IF p.sent
        THEN /\ requests' = Append(requests, [item |-> 1, method |-> p.method,
                                               path |-> p.path])
             /\ pc' = "inflight"
             /\ UNCHANGED <<ret, result>>
        ELSE /\ requests' = requests
             /\ pc' = "done"
             /\ ret' = p.ret
             /\ result' = SingleReturn(call.op, p.ret)
    /\ i' = 1
    /\ UNCHANGED <<responses, index, answers, call, metas, errs, silent, cancelled, cancelledAt, extracted,
                   itemErr>>

\* The call from the return of conn.Do.
SingleFinish ==
    /\ pc = "inflight"
    /\ call.api = "single"
    /\ \E resp \in DoResponses :
        LET r == OperatorPost(call.op, call.keys.seq[1], call.docs[1],
                              applyContextSettings(call.ctx), resp) IN
        /\ ret' = r
        /\ result' = SingleReturn(call.op, r)
    /\ pc' = "done"
    /\ responses' = Append(responses, i)
    /\ UNCHANGED <<index, answers, call, i, metas, errs, silent, requests, cancelled, cancelledAt,
                   extracted, itemErr>>

NextSingle == SingleStart \/ SingleFinish \/ Cancel

SpecSingle == InitSingle /\ [][NextSingle]_vars

(***************************************************************************)
(* Index descriptors and the Index accessors                               *)
(***************************************************************************)

\* A *bool: nil, or a pointer to true or to false.
BoolPtrs == {"nil", "true", "false"}

\* indexData, with the ids and type strings tried.
IndexDatas ==
    [id : {<<>>, <<"c">>, <<"c", "/", "i">>, <<"c", "/", "i", "/", "j">>},
     typestr : {"hash", "geo1", "bogus"},
     unique : BoolPtrs, deduplicate : BoolPtrs, sparse : BoolPtrs,
     geoJSON : BoolPtrs]

\* indexStringToType: the IndexType of a type string, "" with an error.
indexStringToType(indexTypeString) ==
    CASE indexTypeString \in {"fulltext", "hash", "skiplist", "primary", "persistent"}
            -> [type |-> indexTypeString, err |-> NoErr]
      [] indexTypeString \in {"geo", "geo1", "geo2"} -> [type |-> "geo", err |-> NoErr]
      [] OTHER -> [type |-> "", err |-> "InvalidArgumentError"]

\* len(strings.Split(id, "/")): one more than the number of separators.
RECURSIVE SplitCount(_)
SplitCount(id) ==
    IF id = <<>> THEN 1
    ELSE (IF Head(id) = "/" THEN 1 ELSE 0) + SplitCount(Tail(id))

\* newIndex: the Index made of the descriptor, or an error.
newIndex(data, col) ==
    IF data.id = <<>> THEN [made |-> FALSE, err |-> "InvalidArgumentError", indexType |-> ""]
    ELSE IF SplitCount(data.id) # 2
         THEN [made |-> FALSE, err |-> "InvalidArgumentError", indexType |-> ""]
    ELSE IF col = "nil" THEN [made |-> FALSE, err |-> "InvalidArgumentError", indexType |-> ""]
    ELSE IF indexStringToType(data.typestr).err # NoErr
         THEN [made |-> FALSE, err |-> indexStringToType(data.typestr).err, indexType |-> ""]
    ELSE [made |-> TRUE, err |-> NoErr, indexType |-> indexStringToType(data.typestr).type]

boolOrFalse(ptr) == IF ptr # "nil" THEN ptr ELSE "false"

IsUnique(data) == boolOrFalse(data.unique)

IsSparse(data) == boolOrFalse(data.unique)

IsDeduplicate(data) == boolOrFalse(data.deduplicate)

IsGeoJSON(data) == boolOrFalse(data.geoJSON)

\* A call that is no document call: the index operations alone are enabled.
IndexCall == Call("index", "", [silent |-> FALSE, returnOld |-> FALSE, returnNew |-> FALSE],
                  FALSE, NilKeys, <<>>)

InitIndex ==
    /\ pc = "start"
    /\ call = IndexCall
    /\ i = 0
    /\ metas = <<>>
    /\ errs = <<>>
    /\ silent = FALSE
    /\ requests = <<>>
    /\ cancelled = FALSE
    /\ cancelledAt = 0
    /\ extracted = <<>>
    /\ itemErr = <<>>
    /\ ret = Ret(ZeroMeta, ZeroSettings, NoErr)
    /\ result = NoResult
    /\ responses = <<>>
    /\ \E d \in IndexDatas, c \in {"nil", "col"} :
        index = [data |-> d, col |-> c, made |-> FALSE, err |-> NoErr, indexType |-> ""]
    /\ answers = NoAnswers

DocumentVars == <<call, i, metas, errs, silent, requests, cancelled, cancelledAt,
                  extracted, itemErr, ret, result, responses>>

NewIndex ==
    /\ pc = "start"
    /\ call.api = "index"
    /\ LET r == newIndex(index.data, index.col) IN
        /\ index' = [index EXCEPT !.made = r.made, !.err = r.err,
                                  !.indexType = r.indexType]
        /\ pc' = IF r.made THEN "index" ELSE "done"
    /\ UNCHANGED <<DocumentVars, answers>>

CallIsUnique ==
    /\ pc = "index"
    /\ answers.IsUnique = "none"
    /\ answers' = [answers EXCEPT !.IsUnique = IsUnique(index.data)]
    /\ UNCHANGED <<DocumentVars, pc, index>>

CallIsSparse ==
    /\ pc = "index"
    /\ answers.IsSparse = "none"
    /\ answers' = [answers EXCEPT !.IsSparse = IsSparse(index.data)]
    /\ UNCHANGED <<DocumentVars, pc, index>>

CallIsDeduplicate ==
    /\ pc = "index"
    /\ answers.IsDeduplicate = "none"
    /\ answers' = [answers EXCEPT !.IsDeduplicate = IsDeduplicate(index.data)]
    /\ UNCHANGED <<DocumentVars, pc, index>>

CallIsGeoJSON ==
    /\ pc = "index"
    /\ answers.IsGeoJSON = "none"
    /\ answers' = [answers EXCEPT !.IsGeoJSON = IsGeoJSON(index.data)]
    /\ UNCHANGED <<DocumentVars, pc, index>>

NextIndex == NewIndex \/ CallIsUnique \/ CallIsSparse \/ CallIsDeduplicate
                \/ CallIsGeoJSON

SpecIndex == InitIndex /\ [][NextIndex]_vars

(***************************************************************************)
(* Properties                                                              *)
(***************************************************************************)

\* The call passed the batch-level argument checks.
ArgsAccepted == KindCheck(call) = NoErr /\ KeysPrecheck(call) = NoErr

\* The call has returned.
Returned == pc = "done" /\ call.api = "batch"

\* The requests handed to conn.Do for item n.
RequestsOf(n) == {m \in 1..Len(requests) : requests[m].item = n}

\* A batch result with one entry per document, exactly one of metas[n] /
\* errs[n] populated.
OneOfEach(r, count) ==
    /\ Len(r.metas) = count
    /\ Len(r.errs) = count
    /\ \A n \in 1..count : r.metas[n].set <=> (r.errs[n] = NoErr)

\* The calls C1 speaks of: create/update/replace of a slice, no explicit
\* keys, no ReturnOld/ReturnNew sink.
PlainKeyless ==
    /\ call.op \in {"create", "update", "replace"}
    /\ call.isArray
    /\ call.keys.isnil
    /\ ~call.ctx.returnOld
    /\ ~call.ctx.returnNew

\* C1 as stated: every batch call on N documents with no explicit keys and
\* ReturnNew/ReturnOld unset returns metas and errs of length N with exactly
\* one of metas[n] / errs[n] populated at every index.
C1_Original ==
    (Returned /\ PlainKeyless) => OneOfEach(result, Count(call))

\* C1 as amended: the same, for calls whose context is not silent.
C1_NonSilentOneOfEach ==
    (Returned /\ PlainKeyless /\ ~call.ctx.silent) =>
        (~result.isnil /\ OneOfEach(result, Count(call)))

\* C1's case: a returned non-silent call on two or more documents with an
\* item that succeeded and an item that failed.
C1_Witness ==
    /\ Returned /\ PlainKeyless /\ ~call.ctx.silent
    /\ Count(call) >= 2
    /\ \E n, m \in 1..Count(call) : result.metas[n].set /\ result.errs[m] # NoErr

\* C2 as stated: a batch call under a silent configuration returns
\* (nil, nil, nil) whatever the outcomes of its items.
C2_Original ==
    (Returned /\ ArgsAccepted /\ call.ctx.silent /\ Count(call) > 0) =>
        result = NoResult

\* The explicit keys of the call are rejected: their number is not the
\* number of documents, or one of them fails validateKey.
ExplicitKeys == call.op = "remove" \/ (call.op \in {"update", "replace"} /\ ~call.keys.isnil)

KeyCountDiffers == call.op # "remove" /\ Len(call.keys.seq) # Len(call.docs)

SomeKeyInvalid == \E n \in 1..Len(call.keys.seq) : validateKey(call.keys.seq[n]) # NoErr

\* C3: with explicit keys whose number differs from the number of items, or
\* one of which fails the key validator, no request is ever issued and the
\* call returns a batch-level error and no per-item sequences.
C3_BadKeysAbortBeforeAnyRequest ==
    (call.api = "batch" /\ ExplicitKeys /\ (KeyCountDiffers \/ SomeKeyInvalid)) =>
        /\ requests = <<>>
        /\ pc \in {"start", "done"}
        /\ pc = "done" =>
            /\ result.isnil
            /\ result.err # NoErr
            /\ (call.isArray /\ KeyCountDiffers) => result.err = "InvalidArgumentError"

\* C3's case: a returned call whose first key is valid and whose second key
\* is not.
C3_Witness ==
    /\ Returned /\ ExplicitKeys /\ call.isArray /\ ~KeyCountDiffers
    /\ Len(call.keys.seq) >= 2
    /\ validateKey(call.keys.seq[1]) = NoErr
    /\ validateKey(call.keys.seq[2]) # NoErr
    /\ result.err = "InvalidKeyError"

\* The shapes the key extractor is to reject: a nil item, a struct or map
\* with no key, a scalar.
NoKeyShape(doc) ==
    \/ doc.isnil
    \/ doc.kind \in {"Struct", "Ptr", "Map"} /\ ~doc.haskey
    \/ doc.kind = "Int"

\* The shapes that carry a key: a struct (by value or by pointer) with a
\* key-tagged field, a map with a key entry.
CarriesKey(doc) ==
    /\ doc.kind \in {"Struct", "Ptr", "Map"}
    /\ ~doc.isnil /\ doc.haskey /\ ~doc.keynil

\* Item n's iteration is over.
Finished(n) == pc = "done" \/ (pc \in {"loop", "inflight"} /\ i > n)

\* C4 as stated: in a keys-omitted update/replace, an item whose key
\* extraction fails gets its failure in errs, no request is issued for it,
\* the other items are still processed and the call does not abort.
C4_Original ==
    (call.api = "batch" /\ Extracts(call) /\ ~call.ctx.silent
            /\ pc \in {"done", "panic"}) =>
        \A n \in 1..Count(call) : NoKeyShape(call.docs[n]) =>
            /\ pc = "done"
            /\ result.errs[n] # NoErr
            /\ RequestsOf(n) = {}
            /\ \A m \in 1..Count(call) : CarriesKey(call.docs[m]) => extracted[m].called

\* C5 as stated: on a struct with no key field, a map with no key entry, a
\* scalar or a nil item the key extractor returns an InvalidArgumentError;
\* it neither panics nor returns a key.
C5_Original ==
    (call.api = "batch" /\ Extracts(call)) =>
        \A n \in 1..Len(extracted) :
            (extracted[n].called /\ NoKeyShape(call.docs[n])) =>
                /\ ~extracted[n].panic
                /\ extracted[n].err = "InvalidArgumentError"

\* C6 as stated: in a keys-omitted UpdateDocuments, for an item carrying the
\* (valid) key k the extractor returns k, and exactly one PATCH request goes
\* to the path containing k (unless NewRequest or SetBody fails).
C6_Original ==
    (call.api = "batch" /\ call.op = "update" /\ Extracts(call)) =>
        \A n \in 1..Len(extracted) :
            (CarriesKey(call.docs[n]) /\ validateKey(call.docs[n].key) = NoErr) =>
                /\ extracted[n].called =>
                    /\ ~extracted[n].panic
                    /\ extracted[n].err = NoErr
                    /\ extracted[n].key = call.docs[n].key
                /\ pc = "panic" => i # n
                /\ (Finished(n) /\ itemErr[n] \notin {"NewRequestError", "SetBodyError"}) =>
                    /\ Cardinality(RequestsOf(n)) = 1
                    /\ \A m \in RequestsOf(n) :
                        /\ requests[m].method = "PATCH"
                        /\ requests[m].path = KeyPath(call.docs[n].key)

\* C7 as stated: once the call is cancelled while item k is in flight, no
\* request is issued for a later item and the later entries of metas and
\* errs stay at their zero value.
C7_Original ==
    (Returned /\ cancelledAt > 0) =>
        \A n \in (cancelledAt + 1)..Count(call) :
            /\ RequestsOf(n) = {}
            /\ metas[n] = ZeroMeta
            /\ errs[n] = NoErr

\* C7 as amended: the loop does not look at the context. After a
\* cancellation at item k, item k fails with the transport's error and every
\* later item is still processed: its request is handed to conn.Do unless a
\* local check fails first, it ends in an error, and in a non-silent call
\* that error is returned at its index.
C7_LoopIgnoresCancel ==
    (Returned /\ cancelledAt > 0) =>
        /\ itemErr[cancelledAt] = "TransportError"
        /\ \A n \in (cancelledAt + 1)..Count(call) :
            /\ itemErr[n] # NoErr
            /\ (itemErr[n] = "TransportError") <=> (RequestsOf(n) # {})
            /\ ~call.ctx.silent => (~result.isnil /\ result.errs[n] = itemErr[n])

\* C7's case: item 1 was cancelled in flight, and item 2's request went out
\* all the same and its error was returned.
C7_Witness ==
    /\ Returned /\ cancelledAt = 1 /\ Count(call) >= 2
    /\ RequestsOf(2) # {}
    /\ ~result.isnil /\ result.errs[2] = "TransportError"

\* C8 as stated: a single-document operation whose metadata was parsed and
\* whose later decode stage failed returns the error together with the
\* parsed DocumentMeta.
C8_Original ==
    (pc = "done" /\ call.api = "single" /\ ret.meta.set /\ ret.err # NoErr) =>
        /\ result.err = ret.err
        /\ result.metas[1] = ret.meta

\* C9 as stated: in every batch call each per-item error is returned at the
\* item's index in errs.
C9_Original ==
    (Returned /\ ArgsAccepted) =>
        \A n \in 1..Count(call) : itemErr[n] # NoErr =>
            (~result.isnil /\ result.errs[n] = itemErr[n])

\* C9 as amended: in every batch call whose context is not silent, each
\* per-item error returned by the key extractor or by the single-document
\* operator is returned at the item's index in errs, and every item was
\* processed: it has its error or its metadata.
C9_NonSilentErrorsKept ==
    (Returned /\ ArgsAccepted /\ ~call.ctx.silent) =>
        /\ ~result.isnil
        /\ \A n \in 1..Count(call) :
            /\ result.errs[n] = itemErr[n]
            /\ itemErr[n] # NoErr \/ result.metas[n].set

\* C9's case: a returned non-silent call whose first item failed key
\* extraction, and whose second item went to the server and was rejected.
C9_Witness ==
    /\ Returned /\ ~call.ctx.silent /\ Extracts(call) /\ Count(call) >= 2
    /\ extracted[1].err # NoErr
    /\ result.errs[1] = "InvalidArgumentError"
    /\ result.errs[2] = "StatusError"

\* C10 as stated: in the result of a non-silent batch call, at every index
\* either metas[n] is valid and errs[n] is absent, or errs[n] is populated
\* and metas[n] is the zero value.
C10_Original ==
    (Returned /\ ~result.isnil) =>
        \A n \in 1..Len(result.errs) :
            \/ result.metas[n].set /\ result.errs[n] = NoErr
            \/ result.errs[n] # NoErr /\ result.metas[n] = ZeroMeta

\* C10 as amended: a third case exists. When a ReturnOld/ReturnNew sink is
\* set and its envelope fails to decode after the metadata was parsed,
\* errs[n] is the decode error and metas[n] is the parsed DocumentMeta.
C10_MetaOrErrOrBoth ==
    (Returned /\ ~result.isnil) =>
        \A n \in 1..Len(result.errs) :
            \/ result.metas[n].set /\ result.errs[n] = NoErr
            \/ result.errs[n] # NoErr /\ result.metas[n] = ZeroMeta
            \/ /\ result.errs[n] = "DecodeError"
               /\ result.metas[n].set
               /\ call.ctx.returnOld \/ call.ctx.returnNew

\* C10's case: a returned call with a sink set, one item with its metadata
\* and a decode error, one item with its metadata alone.
C10_Witness ==
    /\ Returned /\ ~result.isnil /\ Len(result.errs) >= 2
    /\ call.ctx.returnOld
    /\ result.errs[1] = "DecodeError" /\ result.metas[1].set
    /\ result.errs[2] = NoErr /\ result.metas[2].set

\* C11 as stated: IsSparse returns the descriptor's Sparse attribute when it
\* is present and false when it is absent, whatever Unique, Deduplicate and
\* GeoJSON are; likewise IsUnique, IsDeduplicate and IsGeoJSON return their
\* own attribute.
C11_Original ==
    /\ answers.IsSparse # "none" =>
        answers.IsSparse = (IF index.data.sparse = "nil" THEN "false" ELSE index.data.sparse)
    /\ answers.IsUnique # "none" =>
        answers.IsUnique = (IF index.data.unique = "nil" THEN "false" ELSE index.data.unique)
    /\ answers.IsDeduplicate # "none" =>
        answers.IsDeduplicate =
            (IF index.data.deduplicate = "nil" THEN "false" ELSE index.data.deduplicate)
    /\ answers.IsGeoJSON # "none" =>
        answers.IsGeoJSON = (IF index.data.geoJSON = "nil" THEN "false" ELSE index.data.geoJSON)

\* C12: in every batch call the requests go out in strictly increasing index
\* order (so at most one per item, and at most N in all), every request but
\* the last has been answered, and the last one is unanswered only while
\* the call is inside conn.Do: no request is issued before the response to
\* the one before it.
C12_SequentialNoRetry ==
    call.api = "batch" =>
        /\ Len(requests) <= Count(call)
        /\ \A m \in 1..Len(requests) : requests[m].item \in 1..Count(call)
        /\ \A m \in 1..(Len(requests) - 1) : requests[m].item < requests[m + 1].item
        /\ Len(responses) <= Len(requests)
        /\ \A m \in 1..Len(responses) : responses[m] = requests[m].item
        /\ Len(requests) - Len(responses) = (IF pc = "inflight" THEN 1 ELSE 0)

\* C12's case: the second request of a batch is in flight, the first one
\* answered with an error.
C12_Witness ==
    /\ call.api = "batch" /\ pc = "inflight"
    /\ Len(requests) = 2 /\ responses = <<1>>
    /\ requests[1].item = 1 /\ requests[2].item = 2
    /\ itemErr[1] = "TransportError"

\* The single call's key fails validateKey (the operation has a key).
BadKey ==
    /\ call.op \in {"read", "update", "replace", "remove"}
    /\ validateKey(call.keys.seq[1]) # NoErr

\* The single call's payload is nil (the operation has a payload).
NilPayload ==
    /\ call.op \in {"create", "update", "replace"}
    /\ IsNilInterface(call.docs[1])

\* C13: in a single-document operation with an invalid key or a nil payload
\* no request is ever constructed or sent, and the call returns an
\* InvalidKeyError (invalid key, whatever the payload) or an
\* InvalidArgumentError (nil payload, valid key) with the zero DocumentMeta.
C13_ChecksBeforeRequest ==
    (call.api = "single" /\ (BadKey \/ NilPayload)) =>
        /\ requests = <<>>
        /\ pc \in {"start", "done"}
        /\ pc = "done" =>
            /\ result.err = (IF BadKey THEN "InvalidKeyError" ELSE "InvalidArgumentError")
            /\ result.metas[1] = ZeroMeta
            /\ ret.cs = ZeroSettings

\* C13's case: UpdateDocument with an invalid key and a nil update has
\* returned the key's error.
C13_Witness ==
    /\ pc = "done" /\ call.api = "single" /\ call.op = "update"
    /\ BadKey /\ NilPayload
    /\ result.err = "InvalidKeyError" /\ result.metas[1] = ZeroMeta

====
